---- MODULE Spec2Model ----
(***************************************************************************)
(* A model of hbase/hdfs.py: the HDFS cluster facade (construction, replica *)
(* placement, request routing), the data node's request composition and    *)
(* replication chaining, the name node's metadata request, and the         *)
(* closed-loop HDFSClient running on a cooperative discrete-event kernel.   *)
(*                                                                         *)
(* The specifications share the variables:                                 *)
(*   SpecPlace  cluster construction and the placement loop of             *)
(*              HDFS.get_write_req, one loop iteration per step            *)
(*              (FairPlace adds the fairness of the random draws);         *)
(*   SpecWrite  one write at a time, served by the stages in any order;    *)
(*   SpecShortCircuit  calls of HDFS.get_short_circuit_req;                *)
(*   Spec       the simulation: client instances, the kernel, the stages   *)
(*              and the namespace lock (FairSpec is the simulation within  *)
(*              one instant, with the fairness of engine and kernel).      *)
(***************************************************************************)
EXTENDS Integers, Sequences, FiniteSets, TLC

(***************************************************************************)
(* Bounds of the model.                                                    *)
(***************************************************************************)
\* topologies handed to get_cluster have 0..MaxPhyNodes physical nodes
MaxPhyNodes == 4
\* replica factors of the configuration are 1..MaxReplica (a write stores at
\* least one replica)
MaxReplica == 3

\* Python's None where a physical node is expected (HDFSClient.run, line 402)
NoNode == 0

\* physical nodes are numbered from 1; MaxPhyNodes + 1 is never part of a topology
PhyNodeIds == 1..(MaxPhyNodes + 1)

\* phy_cluster.node_list of a topology of k physical nodes
NodeList(k) == [j \in 1..k |-> j]

SeqToSet(s) == {s[j] : j \in 1..Len(s)}

\* s[1:] of Python
Tail1(s) == [j \in 1..(Len(s) - 1) |-> s[j + 1]]

(***************************************************************************)
(* Cluster construction: HDFS.get_cluster and HDFS.__init__.               *)
(***************************************************************************)
\* a SimpleDataNode: its name index and the physical node it runs on
SimpleDataNode(idx, phy_node) == [name |-> idx, phy_node |-> phy_node]

\* the object state HDFS.__init__ stores; it checks nothing
HDFS_init(namenode, datanode_list, replica) ==
    [namenode |-> namenode, datanode_list |-> datanode_list, replica |-> replica]

\* ClusterAssert with the bound off by one
ClusterAssert_One(node_list) == Len(node_list) >= 1

\* the assertion at the head of get_cluster
ClusterAssert(node_list) == Len(node_list) >= 2

\* BuildDataNodes looping over node_list[0:] and stopping one short
BuildDataNodes_FromFirst(node_list) ==
    [j \in 1..(Len(node_list) - 1) |-> SimpleDataNode(j - 1, node_list[j])]

\* the loop over node_list[1:]: the i-th data node runs on the (i+1)-th node
BuildDataNodes(node_list) ==
    [j \in 1..(Len(node_list) - 1) |-> SimpleDataNode(j - 1, node_list[j + 1])]

\* NameNode with a namespace lock of capacity 2
NameNode_TwoLocks(node_list) == [phy_node |-> node_list[1], lock_capacity |-> 2]

\* the NameNode on node_list[0], holding the namespace lock of capacity 1
NameNode(node_list) == [phy_node |-> node_list[1], lock_capacity |-> 1]

get_cluster(node_list, replica) ==
    HDFS_init(NameNode(node_list), BuildDataNodes(node_list), replica)

\* the value of the hdfs variable while no cluster is constructed
NoHDFS == [namenode |-> [phy_node |-> NoNode, lock_capacity |-> 0],
           datanode_list |-> <<>>, replica |-> 0]

(***************************************************************************)
(* Replica placement: HDFS.get_write_req.                                  *)
(***************************************************************************)
\* WriteAssert with assertions compiled out
WriteAssert_Off(h) == TRUE

\* assert self.replica <= len(self.datanode_list)
WriteAssert(h) == h.replica <= Len(h.datanode_list)

\* the data nodes of h that run on phy_node, in list order
LocalIndexes(h, phy_node) ==
    {j \in 1..Len(h.datanode_list) : h.datanode_list[j].phy_node = phy_node}

\* InitialList without the append of the local data node
InitialList_Empty(h, phy_node) == <<>>

\* the search for local_datanode: the first match, and the initial list
InitialList(h, phy_node) ==
    IF LocalIndexes(h, phy_node) = {}
    THEN <<>>
    ELSE <<h.datanode_list[CHOOSE j \in LocalIndexes(h, phy_node) :
                              \A m \in LocalIndexes(h, phy_node) : j <= m]>>

\* PlaceStep discarding every draw
PlaceStep_Discard(h, list, j) == list

\* PlaceStep without the membership test
PlaceStep_NoCheck(h, list, j) == Append(list, h.datanode_list[j])

\* one iteration of the while loop, the random index being j
PlaceStep(h, list, j) ==
    IF h.datanode_list[j] \in SeqToSet(list)
    THEN list
    ELSE Append(list, h.datanode_list[j])

\* HeadCall handing the whole list downstream (datanode_list[0:] for [1:])
HeadCall_WholeList(list) ==
    [head |-> list[1], downstream |-> IF Len(list) = 1 THEN <<>> ELSE list]

\* the call on the head data node: (head, downstream list)
HeadCall(list) ==
    [head |-> list[1], downstream |-> IF Len(list) = 1 THEN <<>> ELSE Tail1(list)]

\* the chain a call hands over: the head followed by its downstream list
ChainOf(call) == <<call.head>> \o call.downstream

\* the chains the loop can end with, started from list: every order of draws
\* (a draw of an already selected node leaves the list as it is)
RECURSIVE PlaceAll(_, _)
PlaceAll(h, list) ==
    IF ~(Len(list) < h.replica)
    THEN {list}
    ELSE UNION {PlaceAll(h, PlaceStep(h, list, j)) :
                  j \in {m \in 1..Len(h.datanode_list) :
                           h.datanode_list[m] \notin SeqToSet(list)}}

(***************************************************************************)
(* Request composition: StageReq, SimpleDataNode, NameNode.                *)
(***************************************************************************)
\* DataNode.DN_PER_REQ_CPU_TIME, in microseconds
DN_PER_REQ_CPU_TIME == 50
\* DataNode.ACK_SIZE_RATIO = 48 / 64e3 and ACK_CPU_RATIO = 50e-6 / 64e3, kept as
\* numerator (bytes, microseconds) and denominator
ACK_SIZE_NUM == 48
ACK_CPU_NUM == 50
ACK_DEN == 64000

\* a StageReq: its stage, requester, demand map, downstream requests and
\* blocking events (a blocking event is named by the request whose done it is)
StageReq(stage, client_id, resource_profile, downstream_reqs, blocking_evts) ==
    [stage |-> stage, client_id |-> client_id, demand |-> resource_profile,
     downstream_reqs |-> downstream_reqs, blocking_evts |-> blocking_evts]

XceiveStage(dn) == <<"xceive", dn.name>>
PacketAckStage(dn) == <<"packet_ack", dn.name>>
RpcStage == <<"namenode_rpc", 0>>

\* the demand maps: a read or write on the xceive stage, a short-circuit
\* read, a packet ack, a metadata operation
XceiveDemand(dn, size) ==
    [phy_node |-> dn.phy_node, io |-> size, net |-> size, cpu |-> DN_PER_REQ_CPU_TIME,
     den |-> 1, lock |-> 0]
\* ShortCircuitDemand charging the network like a remote read
ShortCircuitDemand_Net(dn, size) ==
    [phy_node |-> dn.phy_node, io |-> size, net |-> size, cpu |-> 0, den |-> 1, lock |-> 0]
ShortCircuitDemand(dn, size) ==
    [phy_node |-> dn.phy_node, io |-> size, net |-> 0, cpu |-> 0, den |-> 1, lock |-> 0]
AckDemand(dn, size) ==
    [phy_node |-> dn.phy_node, io |-> 0, net |-> size * ACK_SIZE_NUM,
     cpu |-> size * ACK_CPU_NUM, den |-> ACK_DEN, lock |-> 0]
LockDemand(phy_node, lock_time) ==
    [phy_node |-> phy_node, io |-> 0, net |-> 0, cpu |-> 0, den |-> 1, lock |-> lock_time]

\* what a get_*_req call returns: the requests it built, the request to submit
\* and the request whose done event is the completion
Built(reqs, req, done) == [reqs |-> reqs, req |-> req, done |-> done]

\* SimpleDataNode.get_read_req
SDN_get_read_req(dn, client_id, read_size) ==
    Built(<<"xceive", 0>> :> StageReq(XceiveStage(dn), client_id,
                                      XceiveDemand(dn, read_size), <<>>, <<>>),
          <<"xceive", 0>>, <<"xceive", 0>>)

\* SimpleDataNode.get_short_circuit_req
SDN_get_short_circuit_req(dn, client_id, read_size) ==
    Built(<<"xceive", 0>> :> StageReq(XceiveStage(dn), client_id,
                                      ShortCircuitDemand(dn, read_size), <<>>, <<>>),
          <<"xceive", 0>>, <<"xceive", 0>>)

\* XceiveDownstream without the append of the downstream xceive request
XceiveDownstream_OnlyAck(ack, has_down, d_xceive_req) == <<ack>>

\* XceiveDownstream without the append of the packet ack request
XceiveDownstream_NoAck(ack, has_down, d_xceive_req) ==
    IF has_down THEN <<d_xceive_req>> ELSE <<>>

\* xceive_req.downstream_reqs after lines 135 and 141
XceiveDownstream(ack, has_down, d_xceive_req) ==
    IF has_down THEN <<ack, d_xceive_req>> ELSE <<ack>>

\* AckBlocking without the append of the downstream ack's done event
AckBlocking_None(has_down, d_packet_ack_done) == <<>>

\* packet_ack_req.blocking_evts after line 142
AckBlocking(has_down, d_packet_ack_done) ==
    IF has_down THEN <<d_packet_ack_done>> ELSE <<>>

\* SimpleDataNode.get_write_req; depth numbers the StageReq objects it creates
RECURSIVE SDN_get_write_req(_, _, _, _, _)
SDN_get_write_req(dn, client_id, write_size, downstream_dn_list, depth) ==
    LET xid == <<"xceive", depth>>
        aid == <<"packet_ack", depth>>
        has_down == Len(downstream_dn_list) # 0
        sub == IF has_down
               THEN SDN_get_write_req(downstream_dn_list[1], client_id, write_size,
                                      IF Len(downstream_dn_list) = 1 THEN <<>>
                                      ELSE Tail1(downstream_dn_list), depth + 1)
               ELSE Built(<<>>, xid, aid)
        xceive_req == StageReq(XceiveStage(dn), client_id, XceiveDemand(dn, write_size),
                               XceiveDownstream(aid, has_down, sub.req), <<>>)
        packet_ack_req == StageReq(PacketAckStage(dn), client_id,
                                   AckDemand(dn, write_size), <<>>,
                                   AckBlocking(has_down, sub.done))
    IN  Built((xid :> xceive_req) @@ (aid :> packet_ack_req) @@ sub.reqs, xid, aid)

\* NameNode.get_metadata_req, reached through HDFS.get_namenode_req
get_metadata_req(h, client_id, lock_time) ==
    Built(<<"meta", 0>> :> StageReq(RpcStage, client_id,
                                    LockDemand(h.namenode.phy_node, lock_time), <<>>, <<>>),
          <<"meta", 0>>, <<"meta", 0>>)

\* HDFS_get_read_req always taking the first data node
HDFS_get_read_req_First(h, j, client_id, read_size) ==
    SDN_get_read_req(h.datanode_list[1], client_id, read_size)

\* HDFS.get_read_req, the random index being j
HDFS_get_read_req(h, j, client_id, read_size) ==
    SDN_get_read_req(h.datanode_list[j], client_id, read_size)

\* the last statement of HDFS.get_write_req, on the list the loop ended with
HDFS_write_delegate(list, client_id, write_size) ==
    SDN_get_write_req(HeadCall(list).head, client_id, write_size,
                      HeadCall(list).downstream, 0)

\* ShortCircuitNode taking the first data node whatever the originating node
ShortCircuitNode_First(h, phy_node) == <<h.datanode_list[1]>>

\* the search loop of HDFS.get_short_circuit_req: the first data node that runs
\* on phy_node (<<>>: datanode is None)
ShortCircuitNode(h, phy_node) ==
    IF LocalIndexes(h, phy_node) = {}
    THEN <<>>
    ELSE <<h.datanode_list[CHOOSE j \in LocalIndexes(h, phy_node) :
                              \A m \in LocalIndexes(h, phy_node) : j <= m]>>

(***************************************************************************)
(* State.                                                                  *)
(***************************************************************************)
VARIABLES
    \* construction and placement
    topo,           \* number of physical nodes of the topology given to get_cluster
    cfg_replica,    \* hdfs_conf.replica
    cstate,         \* "none", "built", or "failed" (get_cluster raised)
    hdfs,           \* the HDFS object
    wpc,            \* HDFS.get_write_req: "idle", "loop", "done", "raised"
    w_phy,          \* its phy_node argument
    w_list,         \* its local datanode_list
    w_dn,           \* its local datanode: the last draw (<<>>: none yet)
    w_call,         \* the call it makes on the head data node
    w_req,          \* what that call built
    sc_pc,          \* HDFS.get_short_circuit_req: "idle", "done", "raised"
    sc_phy,         \* its phy_node argument
    sc_size,        \* its read_size argument
    sc_req,         \* what it returned
    \* simulation
    conf,           \* the client's lookup_time, read_size, write_size, think_time
    now,            \* env.now
    active,         \* the process the kernel is executing (0: the kernel itself)
    pc,             \* per instance: where run() stands
    start,          \* per instance: run()'s local start
    wake,           \* per instance: when its think timeout fires
    ops,            \* per instance: the operations it has submitted and not let go
    num_reqs, total_latency, max_latency, last_report,   \* the client's statistics
    mon_wake,       \* when the monitor's timeout fires
    report          \* the monitor's last emission

callVars == <<sc_pc, sc_phy, sc_size, sc_req>>
placeVars == <<topo, cfg_replica, cstate, hdfs, wpc, w_phy, w_list, w_dn, w_call, w_req,
               callVars>>
simVars == <<conf, now, active, pc, start, wake, ops, num_reqs, total_latency,
             max_latency, last_report, mon_wake, report>>
vars == <<placeVars, simVars>>

NoCall == [head |-> SimpleDataNode(0, NoNode), downstream |-> <<>>]
NoReq == Built(<<>>, <<"none", 0>>, <<"none", 0>>)
NoDraw == <<>>

(***************************************************************************)
(* SpecPlace: construction, then calls of HDFS.get_write_req.              *)
(***************************************************************************)
\* HDFS.get_cluster(env, phy_cluster, hdfs_conf)
GetCluster ==
    /\ cstate = "none"
    /\ IF ClusterAssert(NodeList(topo))
       THEN /\ hdfs' = get_cluster(NodeList(topo), cfg_replica)
            /\ cstate' = "built"
       ELSE /\ cstate' = "failed"
            /\ UNCHANGED hdfs
    /\ UNCHANGED <<topo, cfg_replica, wpc, w_phy, w_list, w_dn, w_call, w_req, callVars, simVars>>

\* HDFS.get_write_req up to the while loop: the assertion, the search for the
\* local data node and its append
WriteEnter(phy_node) ==
    /\ cstate = "built"
    /\ wpc = "idle"
    /\ w_phy' = phy_node
    /\ IF WriteAssert(hdfs)
       THEN /\ w_list' = InitialList(hdfs, phy_node)
            /\ wpc' = "loop"
       ELSE /\ wpc' = "raised"
            /\ UNCHANGED w_list
    /\ UNCHANGED <<topo, cfg_replica, cstate, hdfs, w_dn, w_call, w_req, callVars, simVars>>

\* one iteration of the while loop, random.randrange giving j - 1
WriteDraw(j) ==
    /\ wpc = "loop"
    /\ Len(w_list) < hdfs.replica
    /\ w_dn' = <<hdfs.datanode_list[j]>>
    /\ w_list' = PlaceStep(hdfs, w_list, j)
    /\ UNCHANGED <<topo, cfg_replica, cstate, hdfs, wpc, w_phy, w_call, w_req, callVars, simVars>>

\* the loop has ended: the call on datanode_list[0] and the return
WriteDelegate ==
    /\ wpc = "loop"
    /\ ~(Len(w_list) < hdfs.replica)
    /\ w_call' = HeadCall(w_list)
    /\ w_req' = HDFS_write_delegate(w_list, 1, 1)
    /\ wpc' = "done"
    /\ UNCHANGED <<topo, cfg_replica, cstate, hdfs, w_phy, w_list, w_dn, callVars, simVars>>

\* the caller takes the result; the next call starts afresh
WriteReturn ==
    /\ wpc = "done"
    /\ wpc' = "idle"
    /\ w_phy' = NoNode
    /\ w_list' = <<>>
    /\ w_dn' = NoDraw
    /\ w_call' = NoCall
    /\ w_req' = NoReq
    /\ UNCHANGED <<topo, cfg_replica, cstate, hdfs, callVars, simVars>>

(***************************************************************************)
(* The simulation: bounds.                                                 *)
(***************************************************************************)
\* num_instances of the one client
NumInstances == 2
\* physical nodes of the simulated topology (one name node, the rest data nodes)
SimPhyNodes == 3
\* lookup_time, read_size, write_size and think_time range over 0..MaxParam
MaxParam == 1
\* the simulation runs until env.now = MaxTime
MaxTime == 1
\* the statistics stop counting at MaxReqs cycles per reporting window
MaxReqs == 2
\* the client's monitor_interval (configured; 10 when the section has none)
MonitorInterval == 1

Instances == 1..NumInstances
\* the value of active while the kernel itself runs (no process holds control)
Kernel == 0
\* the one client's client_id
ClientId == 1

(***************************************************************************)
(* The stage and resource engine (StageReq.submit, Stage, Resource).       *)
(***************************************************************************)
\* the requests that submitting id submits: id and, with it, its downstream
\* requests and theirs
RECURSIVE SubmitSet(_, _)
SubmitSet(reqs, id) ==
    {id} \cup UNION {SubmitSet(reqs, reqs[id].downstream_reqs[j]) :
                       j \in 1..Len(reqs[id].downstream_reqs)}

\* StageReq.all_done_list: the done events of the request and of all it spawned
all_done_list(built) == SubmitSet(built.reqs, built.req)

\* an operation in flight: what was built, and each request's status
\* ("new", "queued", "inservice" while holding the lock, "served", "done")
Submit(kind, built) ==
    [kind |-> kind, tree |-> built,
     st |-> [id \in DOMAIN built.reqs |->
               IF id \in SubmitSet(built.reqs, built.req) THEN "queued" ELSE "new"]]

\* the request's blocking events have all fired
BlockersFired(op, id) ==
    \A j \in 1..Len(op.tree.reqs[id].blocking_evts) :
        op.st[op.tree.reqs[id].blocking_evts[j]] = "done"

NeedsLock(op, id) == op.tree.reqs[id].demand.lock > 0

\* the operations in flight, and their requests
InFlight == UNION {{<<i, op>> : op \in ops[i]} : i \in Instances}
Requests == UNION {{<<x[1], x[2], id>> : id \in DOMAIN x[2].tree.reqs} : x \in InFlight}

\* requests holding the namespace lock
LockHolders == {x \in Requests : NeedsLock(x[2], x[3]) /\ x[2].st[x[3]] = "inservice"}

SetStatus(i, op, id, status) ==
    [ops EXCEPT ![i] = (@ \ {op}) \cup {[op EXCEPT !.st = [@ EXCEPT ![id] = status]]}]

\* LookupFired without the wait: the instance goes on at once
LookupFired_NoWait(op) == TRUE

\* the completion event of an operation has fired
LookupFired(op) == \A id \in all_done_list(op.tree) : op.st[id] = "done"
DoneFired(op) == op.st[op.tree.done] = "done"

\* a suspended instance whose awaited event has fired
Resumable(i) ==
    \/ pc[i] = "init"
    \/ pc[i] = "lookup_wait" /\ \E op \in ops[i] : op.kind = "lookup" /\ LookupFired(op)
    \/ pc[i] = "read_wait" /\ \E op \in ops[i] : op.kind = "read" /\ DoneFired(op)
    \/ pc[i] = "write_wait" /\ \E op \in ops[i] : op.kind = "write" /\ DoneFired(op)
    \/ pc[i] = "think_wait" /\ wake[i] = now

\* a completion event that is due to fire
Fireable(i, op, id) == op.st[id] = "served" /\ BlockersFired(op, id)

\* the namespace lock is granted to a queued metadata request
Acquire(i, op, id) ==
    /\ active = Kernel
    /\ op.st[id] = "queued"
    /\ NeedsLock(op, id)
    /\ Cardinality(LockHolders) < hdfs.namenode.lock_capacity
    /\ ops' = SetStatus(i, op, id, "inservice")
    /\ UNCHANGED <<placeVars, conf, now, active, pc, start, wake, num_reqs, total_latency,
                   max_latency, last_report, mon_wake, report>>

\* a stage finishes the work of a request; its done fires at once unless a
\* blocking event has not fired yet
Serve(i, op, id) ==
    /\ active = Kernel
    /\ IF NeedsLock(op, id) THEN op.st[id] = "inservice" ELSE op.st[id] = "queued"
    /\ ops' = SetStatus(i, op, id, IF BlockersFired(op, id) THEN "done" ELSE "served")
    /\ UNCHANGED <<placeVars, conf, now, active, pc, start, wake, num_reqs, total_latency,
                   max_latency, last_report, mon_wake, report>>

\* the last blocking event of a served request has fired: its done fires
Fire(i, op, id) ==
    /\ active = Kernel
    /\ Fireable(i, op, id)
    /\ ops' = SetStatus(i, op, id, "done")
    /\ UNCHANGED <<placeVars, conf, now, active, pc, start, wake, num_reqs, total_latency,
                   max_latency, last_report, mon_wake, report>>

(***************************************************************************)
(* HDFSClient.run.  An action is the stretch of code the generator runs    *)
(* when the kernel resumes it: from the resumption point to the next yield,*)
(* or to the head of the loop when the cycle ends without one.  The two    *)
(* yields of a phase (the submission, then the completion event) are one   *)
(* suspension: the submission is accepted at once.                         *)
(***************************************************************************)
\* the guards of the three phases
PhaseOn(phase) ==
    IF phase = "lookup" THEN conf.lookup_time > 0
    ELSE IF phase = "read" THEN conf.read_size > 0
    ELSE conf.write_size > 0

\* the first phase at or after `from` that is not skipped; "finish" if none
NextPhase(from) ==
    IF from = "lookup" /\ PhaseOn("lookup") THEN "lookup"
    ELSE IF from \in {"lookup", "read"} /\ PhaseOn("read") THEN "read"
    ELSE IF from \in {"lookup", "read", "write"} /\ PhaseOn("write") THEN "write"
    ELSE "finish"

\* ClientWriteOrigin naming the first data node's physical node
ClientWriteOrigin_Local == hdfs.datanode_list[1].phy_node

\* the phy_node HDFSClient.run passes to get_write_req: None
ClientWriteOrigin == NoNode

\* the operations HDFSClient.run can submit in a phase: get_namenode_req,
\* get_read_req on any data node, get_write_req(None, ...) with any outcome
\* of its placement loop
PhaseOps(phase) ==
    IF phase = "lookup"
    THEN {Submit("lookup", get_metadata_req(hdfs, ClientId, conf.lookup_time))}
    ELSE IF phase = "read"
    THEN {Submit("read", HDFS_get_read_req(hdfs, j, ClientId, conf.read_size)) :
            j \in 1..Len(hdfs.datanode_list)}
    ELSE IF WriteAssert(hdfs)
    THEN {Submit("write", HDFS_write_delegate(list, ClientId, conf.write_size)) :
            list \in PlaceAll(hdfs, InitialList(hdfs, ClientWriteOrigin))}
    ELSE {}

\* where the instance suspends after submitting in a phase
WaitOf(phase) ==
    IF phase = "lookup" THEN "lookup_wait"
    ELSE IF phase = "read" THEN "read_wait"
    ELSE "write_wait"

\* Latency measured from the start of the simulation
Latency_FromZero(s) == now

\* latency = self.env.now - start
Latency(s) == now - s

\* run() from phase `from` on, in a cycle started at time s, the instance's
\* operations being o: submit in the next phase that is on and suspend, or
\* end the cycle (statistics, then think time or straight back to the head)
Continue(i, from, s, o) ==
    IF NextPhase(from) # "finish"
    THEN /\ \E op \in PhaseOps(NextPhase(from)) :
               ops' = [ops EXCEPT ![i] = o \cup {op}]
         /\ pc' = [pc EXCEPT ![i] = WaitOf(NextPhase(from))]
         /\ active' = Kernel
         /\ UNCHANGED <<wake, num_reqs, total_latency>>
    ELSE /\ ops' = [ops EXCEPT ![i] = o]
         /\ IF num_reqs < MaxReqs
            THEN /\ num_reqs' = num_reqs + 1
                 /\ total_latency' = total_latency + Latency(s)
            ELSE UNCHANGED <<num_reqs, total_latency>>
         /\ IF conf.think_time # 0
            THEN /\ wake' = [wake EXCEPT ![i] = now + conf.think_time]
                 /\ pc' = [pc EXCEPT ![i] = "think_wait"]
                 /\ active' = Kernel
            ELSE /\ pc' = [pc EXCEPT ![i] = "head"]
                 /\ active' = i
                 /\ UNCHANGED wake

\* env.process(self.run()): the kernel starts the generator
Startup(i) ==
    /\ active = Kernel
    /\ pc[i] = "init"
    /\ start' = [start EXCEPT ![i] = now]
    /\ Continue(i, "lookup", now, ops[i])
    /\ UNCHANGED <<placeVars, conf, now, max_latency, last_report, mon_wake, report>>

\* the cycle ended without a yield: the generator is at the head of the loop
\* and still has control
Loop(i) ==
    /\ active = i
    /\ pc[i] = "head"
    /\ start' = [start EXCEPT ![i] = now]
    /\ Continue(i, "lookup", now, ops[i])
    /\ UNCHANGED <<placeVars, conf, now, max_latency, last_report, mon_wake, report>>

\* lookup_done (all of the submission's done events) has fired
LookupDone(i) ==
    /\ active = Kernel
    /\ pc[i] = "lookup_wait"
    /\ \E op \in ops[i] :
          /\ op.kind = "lookup"
          /\ LookupFired(op)
          /\ Continue(i, "read", start[i], ops[i] \ {op})
    /\ UNCHANGED <<placeVars, conf, now, start, max_latency, last_report, mon_wake, report>>

\* the read's done_evt has fired
ReadDone(i) ==
    /\ active = Kernel
    /\ pc[i] = "read_wait"
    /\ \E op \in ops[i] :
          /\ op.kind = "read"
          /\ DoneFired(op)
          /\ Continue(i, "write", start[i], ops[i] \ {op})
    /\ UNCHANGED <<placeVars, conf, now, start, max_latency, last_report, mon_wake, report>>

\* the write's ack_done has fired
WriteDone(i) ==
    /\ active = Kernel
    /\ pc[i] = "write_wait"
    /\ \E op \in ops[i] :
          /\ op.kind = "write"
          /\ DoneFired(op)
          /\ Continue(i, "finish", start[i], ops[i] \ {op})
    /\ UNCHANGED <<placeVars, conf, now, start, max_latency, last_report, mon_wake, report>>

\* the think timeout has fired: the next cycle begins
ThinkDone(i) ==
    /\ active = Kernel
    /\ pc[i] = "think_wait"
    /\ wake[i] = now
    /\ start' = [start EXCEPT ![i] = now]
    /\ Continue(i, "lookup", now, ops[i])
    /\ UNCHANGED <<placeVars, conf, now, max_latency, last_report, mon_wake, report>>

(***************************************************************************)
(* The kernel's clock and the client's monitor process.                    *)
(***************************************************************************)
\* virtual time advances once nothing is left to do at the current instant
Tick ==
    /\ active = Kernel
    /\ now < MaxTime
    /\ mon_wake # now
    /\ \A i \in Instances : ~Resumable(i)
    /\ \A x \in Requests : ~Fireable(x[1], x[2], x[3])
    /\ now' = now + 1
    /\ UNCHANGED <<placeVars, conf, active, pc, start, wake, ops, num_reqs, total_latency,
                   max_latency, last_report, mon_wake, report>>

\* Client.monitor_run: emit the window's statistics and reset them
Monitor ==
    /\ active = Kernel
    /\ mon_wake = now
    /\ report' = [count |-> num_reqs, total |-> total_latency, max |-> max_latency,
                  time |-> now]
    /\ num_reqs' = 0
    /\ total_latency' = 0
    /\ max_latency' = 0
    /\ last_report' = now
    /\ mon_wake' = now + MonitorInterval
    /\ UNCHANGED <<placeVars, conf, now, active, pc, start, wake, ops>>

(***************************************************************************)
(* The specifications.                                                     *)
(***************************************************************************)
Params == 0..MaxParam

\* HDFSClient.__init__ has run: instances and monitor created, statistics zero
ClientInit ==
    /\ now = 0
    /\ active = Kernel
    /\ pc = [i \in Instances |-> "init"]
    /\ start = [i \in Instances |-> 0]
    /\ wake = [i \in Instances |-> 0]
    /\ ops = [i \in Instances |-> {}]
    /\ num_reqs = 0
    /\ total_latency = 0
    /\ max_latency = 0
    /\ last_report = 0
    /\ mon_wake = MonitorInterval
    /\ report = [count |-> 0, total |-> 0, max |-> 0, time |-> 0]

\* get_write_req's locals while no call is in progress
PlaceIdle ==
    /\ wpc = "idle"
    /\ w_phy = NoNode
    /\ w_list = <<>>
    /\ w_dn = NoDraw
    /\ w_call = NoCall
    /\ w_req = NoReq
    /\ sc_pc = "idle"
    /\ sc_phy = NoNode
    /\ sc_size = 0
    /\ sc_req = NoReq

InitPlace ==
    /\ topo \in 0..MaxPhyNodes
    /\ cfg_replica \in 1..MaxReplica
    /\ cstate = "none"
    /\ hdfs = NoHDFS
    /\ PlaceIdle
    /\ conf = [lookup_time |-> 0, read_size |-> 0, write_size |-> 0, think_time |-> 0]
    /\ ClientInit

NextPlace ==
    \/ GetCluster
    \/ \E phy_node \in {NoNode} \cup PhyNodeIds : WriteEnter(phy_node)
    \/ \E j \in 1..Len(hdfs.datanode_list) : WriteDraw(j)
    \/ WriteDelegate
    \/ WriteReturn

SpecPlace == InitPlace /\ [][NextPlace]_vars

\* fair random draws: an index that random.randrange can return, and whose
\* draw would extend the list, is not passed over forever; and the code after
\* the loop runs once the loop has ended
DrawFairness ==
    /\ \A j \in 1..(MaxPhyNodes - 1) :
          WF_vars(j <= Len(hdfs.datanode_list) /\ WriteDraw(j))
    /\ WF_vars(WriteDelegate)

FairPlace == InitPlace /\ [][NextPlace]_vars /\ DrawFairness

\* the simulation starts on a cluster built by get_cluster
Init ==
    /\ topo = SimPhyNodes
    /\ cfg_replica \in {r \in 1..MaxReplica : r <= SimPhyNodes - 1}
    /\ cstate = "built"
    /\ hdfs = get_cluster(NodeList(topo), cfg_replica)
    /\ PlaceIdle
    /\ conf \in [lookup_time : Params, read_size : Params, write_size : Params,
                 think_time : Params]
    /\ ClientInit

Engine ==
    \E x \in Requests :
        \/ Acquire(x[1], x[2], x[3])
        \/ Serve(x[1], x[2], x[3])
        \/ Fire(x[1], x[2], x[3])

ClientStep(i) ==
    \/ Startup(i)
    \/ Loop(i)
    \/ LookupDone(i)
    \/ ReadDone(i)
    \/ WriteDone(i)
    \/ ThinkDone(i)

Next ==
    \/ \E i \in Instances : ClientStep(i)
    \/ Engine
    \/ Tick
    \/ Monitor

Spec == Init /\ [][Next]_vars

(***************************************************************************)
(* SpecWrite: one write at a time, built by HDFS.get_write_req for any     *)
(* originating node and served by the stages in any order.                 *)
(***************************************************************************)
\* the caller of get_write_req submits the request it got
SubmitWrite(phy_node) ==
    /\ active = Kernel
    /\ ops[1] = {}
    /\ WriteAssert(hdfs)
    /\ \E list \in PlaceAll(hdfs, InitialList(hdfs, phy_node)) :
          /\ w_list' = list
          /\ w_call' = HeadCall(list)
          /\ w_req' = HDFS_write_delegate(list, ClientId, 1)
          /\ ops' = [ops EXCEPT ![1] = {Submit("write", HDFS_write_delegate(list, ClientId, 1))}]
    /\ w_phy' = phy_node
    /\ UNCHANGED <<topo, cfg_replica, cstate, hdfs, wpc, w_dn, callVars, conf, now, active, pc, start,
                   wake, num_reqs, total_latency, max_latency, last_report, mon_wake, report>>

\* the caller has seen the completion fire and lets the request tree go
ReleaseWrite ==
    /\ active = Kernel
    /\ \E op \in ops[1] :
          /\ DoneFired(op)
          /\ ops' = [ops EXCEPT ![1] = {}]
    /\ UNCHANGED <<placeVars, conf, now, active, pc, start, wake, num_reqs, total_latency,
                   max_latency, last_report, mon_wake, report>>

InitWrite ==
    /\ topo \in 2..MaxPhyNodes
    /\ cfg_replica \in {r \in 1..MaxReplica : r <= topo - 1}
    /\ cstate = "built"
    /\ hdfs = get_cluster(NodeList(topo), cfg_replica)
    /\ PlaceIdle
    /\ conf = [lookup_time |-> 0, read_size |-> 0, write_size |-> 1, think_time |-> 0]
    /\ ClientInit

NextWrite ==
    \/ \E phy_node \in {NoNode} \cup PhyNodeIds : SubmitWrite(phy_node)
    \/ \E x \in Requests : Serve(x[1], x[2], x[3])
    \/ \E x \in Requests : Fire(x[1], x[2], x[3])
    \/ ReleaseWrite

SpecWrite == InitWrite /\ [][NextWrite]_vars

(***************************************************************************)
(* SpecShortCircuit: calls of HDFS.get_short_circuit_req from any           *)
(* originating node, for any size.                                         *)
(***************************************************************************)
\* read sizes of the short-circuit calls are 0..MaxSize
MaxSize == 2

\* HDFS.get_short_circuit_req(phy_node, client_id, read_size)
ShortCircuit(phy_node, read_size) ==
    /\ cstate = "built"
    /\ sc_pc = "idle"
    /\ sc_phy' = phy_node
    /\ sc_size' = read_size
    /\ IF ShortCircuitNode(hdfs, phy_node) = <<>>
       THEN /\ sc_pc' = "raised"
            /\ UNCHANGED sc_req
       ELSE /\ sc_req' = SDN_get_short_circuit_req(ShortCircuitNode(hdfs, phy_node)[1],
                                                   ClientId, read_size)
            /\ sc_pc' = "done"
    /\ UNCHANGED <<topo, cfg_replica, cstate, hdfs, wpc, w_phy, w_list, w_dn, w_call, w_req,
                   simVars>>

\* the caller takes the result or the RuntimeError; the next call starts afresh
ShortCircuitReturn ==
    /\ sc_pc \in {"done", "raised"}
    /\ sc_pc' = "idle"
    /\ sc_phy' = NoNode
    /\ sc_size' = 0
    /\ sc_req' = NoReq
    /\ UNCHANGED <<topo, cfg_replica, cstate, hdfs, wpc, w_phy, w_list, w_dn, w_call, w_req,
                   simVars>>

InitShortCircuit ==
    /\ topo \in 2..MaxPhyNodes
    /\ cfg_replica \in 1..MaxReplica
    /\ cstate = "built"
    /\ hdfs = get_cluster(NodeList(topo), cfg_replica)
    /\ PlaceIdle
    /\ conf = [lookup_time |-> 0, read_size |-> 0, write_size |-> 0, think_time |-> 0]
    /\ ClientInit

NextShortCircuit ==
    \/ \E phy_node \in {NoNode} \cup PhyNodeIds : \E read_size \in 0..MaxSize :
          ShortCircuit(phy_node, read_size)
    \/ ShortCircuitReturn

SpecShortCircuit == InitShortCircuit /\ [][NextShortCircuit]_vars

(***************************************************************************)
(* FairSpec: the simulation within one instant of virtual time (no think   *)
(* time, the order of service arbitrary), with the fairness of the kernel  *)
(* and the engine: the kernel processes every scheduled event, the stages  *)
(* serve every queued request, the lock's FIFO queue grants every waiting  *)
(* request.                                                                *)
(***************************************************************************)
InitFair == Init /\ conf.think_time = 0

FairClientStep(i) ==
    \/ Startup(i)
    \/ Loop(i)
    \/ LookupDone(i)
    \/ ReadDone(i)
    \/ WriteDone(i)

EngineFor(i) ==
    \E op \in ops[i] : \E id \in DOMAIN op.tree.reqs :
        \/ Acquire(i, op, id)
        \/ Serve(i, op, id)
        \/ Fire(i, op, id)

NextFair ==
    \/ \E i \in Instances : FairClientStep(i)
    \/ \E i \in Instances : EngineFor(i)

Fairness ==
    \A i \in Instances : SF_vars(FairClientStep(i)) /\ SF_vars(EngineFor(i))

FairSpec == InitFair /\ [][NextFair]_vars /\ Fairness

(***************************************************************************)
(* Properties.                                                             *)
(***************************************************************************)
NoDup(list) == \A a, b \in 1..Len(list) : list[a] = list[b] => a = b

\* the requests of an operation at a stage, and whether they have completed
ReqsAt(op, stage) == {id \in DOMAIN op.tree.reqs : op.tree.reqs[id].stage = stage}
Completed(op, stage) ==
    /\ ReqsAt(op, stage) # {}
    /\ \A id \in ReqsAt(op, stage) : op.st[id] = "done"

\* C1 (SpecWrite): the completion returned for a write has fired only if the
\* xceive request and the packet-ack request of every chain member have
\* completed.
C1_CompletionAfterAllStages ==
    \A op \in ops[1] :
        DoneFired(op) =>
            \A k \in 1..Len(ChainOf(w_call)) :
                /\ Completed(op, XceiveStage(ChainOf(w_call)[k]))
                /\ Completed(op, PacketAckStage(ChainOf(w_call)[k]))

\* C2 (SpecWrite): the ack of chain member k has fired only if the ack of
\* member k+1 has fired, and the returned completion has fired only if all
\* acks of the chain have.
C2_AcksInReverseOrder ==
    \A op \in ops[1] :
        /\ \A k \in 1..(Len(ChainOf(w_call)) - 1) :
              Completed(op, PacketAckStage(ChainOf(w_call)[k]))
                  => Completed(op, PacketAckStage(ChainOf(w_call)[k + 1]))
        /\ DoneFired(op) =>
              \A k \in 1..Len(ChainOf(w_call)) :
                  Completed(op, PacketAckStage(ChainOf(w_call)[k]))

\* a write over a chain of three whose returned completion has fired
C2_Witness ==
    \E op \in ops[1] : Len(ChainOf(w_call)) = 3 /\ DoneFired(op)

\* C3 (SpecPlace): the chain handed to the head data node has exactly
\* replica members.
C3_ChainHasReplicaMembers ==
    wpc = "done" => Len(ChainOf(w_call)) = hdfs.replica

\* a finished placement of three replicas whose origin hosts a data node
\* other than the first of the list
C3_Witness ==
    /\ wpc = "done"
    /\ hdfs.replica = 3
    /\ LocalIndexes(hdfs, w_phy) # {}
    /\ w_call.head # hdfs.datanode_list[1]
    /\ Len(ChainOf(w_call)) = 3

\* C4 (SpecPlace): at every step of the loop and in the final chain no
\* data node appears twice and every member is a data node of the cluster.
C4_NoRepeats ==
    /\ wpc \in {"loop", "done"} =>
          /\ NoDup(w_list)
          /\ SeqToSet(w_list) \subseteq SeqToSet(hdfs.datanode_list)
    /\ wpc = "done" =>
          /\ NoDup(ChainOf(w_call))
          /\ SeqToSet(ChainOf(w_call)) \subseteq SeqToSet(hdfs.datanode_list)

\* the loop has just drawn the co-located node that is already the head
C4_Witness ==
    /\ wpc = "loop"
    /\ LocalIndexes(hdfs, w_phy) # {}
    /\ Len(w_list) >= 2
    /\ w_dn = <<w_list[1]>>

\* C5 (SpecPlace): when the originating node hosts a data node, that data
\* node is first in the list throughout the loop, is the head of the call,
\* and all other chain members are downstream of it.
C5_LocalIsHead ==
    (wpc \in {"loop", "done"} /\ LocalIndexes(hdfs, w_phy) # {}) =>
        /\ Len(w_list) >= 1
        /\ w_list[1].phy_node = w_phy
        /\ wpc = "done" =>
              /\ w_call.head.phy_node = w_phy
              /\ \A k \in 1..Len(w_call.downstream) : w_call.downstream[k].phy_node # w_phy

\* a finished placement whose origin hosts the last data node of the list
C5_Witness ==
    /\ wpc = "done"
    /\ Len(hdfs.datanode_list) >= 2
    /\ w_phy = hdfs.datanode_list[Len(hdfs.datanode_list)].phy_node
    /\ Len(w_call.downstream) >= 1

C10_WriteAssertsFirst ==
    (cstate = "built" /\ hdfs.replica > Len(hdfs.datanode_list)) =>
        /\ wpc \in {"idle", "raised"}
        /\ w_list = <<>>
        /\ w_dn = NoDraw
        /\ w_call = NoCall
        /\ w_req = NoReq

\* get_write_req has raised
C10_Witness ==
    wpc = "raised" /\ hdfs.replica > Len(hdfs.datanode_list)


\* the completion event the client waits for has fired, spelled out per kind
CompletionFired(op) ==
    IF op.kind = "lookup"
    THEN \A id \in DOMAIN op.st : op.st[id] = "done"
    ELSE op.st[op.tree.done] = "done"

\* the chain of a write operation, as data node names, head first
OpChain(op) ==
    [k \in 1..(Cardinality(DOMAIN op.tree.reqs) \div 2) |->
        op.tree.reqs[<<"xceive", k - 1>>].stage[2]]

Waits == {"lookup_wait", "read_wait", "write_wait"}
AllOn == conf.lookup_time > 0 /\ conf.read_size > 0 /\ conf.write_size > 0
AllZero == conf.lookup_time = 0 /\ conf.read_size = 0 /\ conf.write_size = 0

\* C6 (FairSpec): every submitted lookup, read or write eventually has its
\* completion event fire: again and again each instance is without an
\* operation whose completion has not fired.
C6_EveryOperationCompletes ==
    \A i \in Instances : []<>(\A op \in ops[i] : CompletionFired(op))

\* two instances have writes outstanding whose chains visit the same data
\* nodes in opposite orders, no ack served yet
C6_Witness ==
    \E op1 \in ops[1] : \E op2 \in ops[2] :
        /\ op1.kind = "write" /\ op2.kind = "write"
        /\ Len(OpChain(op1)) = 2
        /\ OpChain(op2) = <<OpChain(op1)[2], OpChain(op1)[1]>>
        /\ \A id \in DOMAIN op1.st : op1.st[id] = "queued"
        /\ \A id \in DOMAIN op2.st : op2.st[id] = "queued"

\* the operations an instance holds agree with where it stands: at most
\* one, of the phase it waits in, and never of a phase whose parameter is 0
C7_Inv ==
    \A i \in Instances :
        /\ Cardinality(ops[i]) <= 1
        /\ pc[i] \notin Waits => ops[i] = {}
        /\ \A op \in ops[i] :
              /\ ~CompletionFired(op) => pc[i] = WaitOf(op.kind)
              /\ op.kind = "lookup" => conf.lookup_time > 0
              /\ op.kind = "read" => conf.read_size > 0
              /\ op.kind = "write" => conf.write_size > 0

\* an instance leaves a wait only when the awaited completion has fired, and
\* enters a phase only from the phase before it
C7_Step ==
    \A i \in Instances :
        /\ (pc[i] \in Waits /\ pc'[i] # pc[i]) =>
              \E op \in ops[i] : WaitOf(op.kind) = pc[i] /\ CompletionFired(op)
        /\ (pc[i] = "think_wait" /\ pc'[i] # pc[i]) => now = wake[i]
        /\ (pc'[i] = "think_wait" /\ pc[i] # "think_wait") =>
              conf.think_time > 0 /\ wake'[i] = now + conf.think_time
        /\ (pc'[i] = "head" /\ pc[i] # "head") => conf.think_time = 0
        /\ (pc'[i] = "lookup_wait" /\ pc[i] # "lookup_wait") =>
              pc[i] \in {"init", "head", "think_wait"}
        /\ (pc'[i] = "read_wait" /\ pc[i] # "read_wait") =>
              IF conf.lookup_time > 0 THEN pc[i] = "lookup_wait"
              ELSE pc[i] \in {"init", "head", "think_wait"}
        /\ (pc'[i] = "write_wait" /\ pc[i] # "write_wait") =>
              IF conf.read_size > 0 THEN pc[i] = "read_wait"
              ELSE IF conf.lookup_time > 0 THEN pc[i] = "lookup_wait"
              ELSE pc[i] \in {"init", "head", "think_wait"}

\* C7 (Spec): each instance is closed-loop: at most one operation
\* outstanding; the read is submitted only after all completions of the
\* lookup have fired, the write only after the read's, the next cycle only
\* after the write's and the think time; a phase whose parameter is 0
\* submits nothing.
C7_ClosedLoop == []C7_Inv /\ [][C7_Step]_vars

\* an instance waits for its write in a later cycle of a client with all
\* three phases on, while the other instance waits for its lookup
C7_Witness ==
    /\ AllOn
    /\ num_reqs >= 1
    /\ \E i, j \in Instances : pc[i] = "write_wait" /\ pc[j] = "lookup_wait"

\* C8 (Spec): a client with lookup_time = read_size = write_size = 0
\* gives control back to the kernel in every cycle, whatever its think_time,
\* and suspends for exactly think_time when that is not 0.
C8_ZeroClientYields ==
    AllZero =>
        /\ active = Kernel
        /\ \A i \in Instances :
              pc[i] = "think_wait" => wake[i] = start[i] + conf.think_time

\* the data nodes of the cluster that run on a physical node
HostedOn(phy_node) ==
    {j \in 1..Len(hdfs.datanode_list) : hdfs.datanode_list[j].phy_node = phy_node}

\* C11 (SpecShortCircuit): get_short_circuit_req raises, returning no
\* request, exactly when the originating node hosts no data node of the
\* cluster; otherwise it returns one request, on the xceive stage and the
\* physical node of a data node that runs on the originating node.
C11_ShortCircuitLocality ==
    /\ sc_pc = "raised" => (HostedOn(sc_phy) = {} /\ sc_req = NoReq)
    /\ sc_pc = "done" =>
          /\ HostedOn(sc_phy) # {}
          /\ Cardinality(DOMAIN sc_req.reqs) = 1
          /\ sc_req.req \in DOMAIN sc_req.reqs
          /\ sc_req.done = sc_req.req
          /\ \A id \in DOMAIN sc_req.reqs :
                /\ sc_req.reqs[id].demand.phy_node = sc_phy
                /\ \E j \in HostedOn(sc_phy) :
                      sc_req.reqs[id].stage = XceiveStage(hdfs.datanode_list[j])

\* a short-circuit read from the name node's physical node has raised
C11_Witness ==
    sc_pc = "raised" /\ sc_phy = hdfs.namenode.phy_node /\ Len(hdfs.datanode_list) >= 2

\* C15 (SpecShortCircuit): the request of a short-circuit read demands io
\* equal to the requested size, no net and no cpu, and has no downstream
\* requests and no blocking events.
C15_ShortCircuitDemand ==
    sc_pc = "done" =>
        \A id \in DOMAIN sc_req.reqs :
            /\ sc_req.reqs[id].demand.io = sc_size * sc_req.reqs[id].demand.den
            /\ sc_req.reqs[id].demand.net = 0
            /\ sc_req.reqs[id].demand.cpu = 0
            /\ sc_req.reqs[id].demand.lock = 0
            /\ sc_req.reqs[id].downstream_reqs = <<>>
            /\ sc_req.reqs[id].blocking_evts = <<>>

\* a short-circuit read of the largest size has returned its request
C15_Witness ==
    sc_pc = "done" /\ sc_size = MaxSize /\ DOMAIN sc_req.reqs # {}

\* the operations of a kind that are in flight
OpsOf(kind) == {x \in InFlight : x[2].kind = kind}

\* C12 (FairSpec): a read is exactly one request, on the xceive stage of
\* one data node of the cluster, without downstream requests or blocking
\* events; the completion returned is that request's own done event, so the
\* read has completed exactly when that request has; and get_read_req can
\* choose every data node of the cluster.
C12_ReadIsOneRequest ==
    /\ \A x \in OpsOf("read") :
          LET op == x[2] IN
          /\ Cardinality(DOMAIN op.tree.reqs) = 1
          /\ op.tree.req \in DOMAIN op.tree.reqs
          /\ op.tree.done = op.tree.req
          /\ \A id \in DOMAIN op.tree.reqs :
                /\ \E j \in 1..Len(hdfs.datanode_list) :
                      /\ op.tree.reqs[id].stage = XceiveStage(hdfs.datanode_list[j])
                      /\ op.tree.reqs[id].demand.phy_node = hdfs.datanode_list[j].phy_node
                /\ op.tree.reqs[id].downstream_reqs = <<>>
                /\ op.tree.reqs[id].blocking_evts = <<>>
          /\ CompletionFired(op) <=> \A id \in DOMAIN op.st : op.st[id] = "done"
    /\ conf.read_size > 0 =>
          \A j \in 1..Len(hdfs.datanode_list) :
              \E op \in PhaseOps("read") :
                  op.tree.reqs[op.tree.req].stage = XceiveStage(hdfs.datanode_list[j])

\* the two instances read from different data nodes; the read from the last
\* data node has completed, the other has not
C12_Witness ==
    \E x, y \in OpsOf("read") :
        /\ x[2].tree.reqs[x[2].tree.req].stage =
              XceiveStage(hdfs.datanode_list[Len(hdfs.datanode_list)])
        /\ y[2].tree.reqs[y[2].tree.req].stage = XceiveStage(hdfs.datanode_list[1])
        /\ Len(hdfs.datanode_list) >= 2
        /\ CompletionFired(x[2])
        /\ ~CompletionFired(y[2])

\* the metadata requests that hold the namespace lock
Holding == {x \in Requests : x[2].kind = "lookup" /\ x[2].st[x[3]] = "inservice"}

\* C13 (FairSpec): every lookup is one request on the name node's rpc
\* stage demanding the one namespace lock of capacity 1 for lookup_time,
\* and at any instant at most one lookup request holds the lock.
C13_NamespaceLockExclusive ==
    /\ \A x \in OpsOf("lookup") :
          /\ Cardinality(DOMAIN x[2].tree.reqs) = 1
          /\ \A id \in DOMAIN x[2].tree.reqs :
                /\ x[2].tree.reqs[id].stage = RpcStage
                /\ x[2].tree.reqs[id].demand.lock = conf.lookup_time
                /\ x[2].tree.reqs[id].demand.lock > 0
    /\ Cardinality(Holding) <= 1

\* one instance's lookup holds the lock while the other's is queued
C13_Witness ==
    \E x, y \in Requests :
        /\ x[1] # y[1]
        /\ x[2].kind = "lookup" /\ y[2].kind = "lookup"
        /\ x[2].st[x[3]] = "inservice"
        /\ y[2].st[y[3]] = "queued"

\* C14 (Spec): the maximum the client records and its monitor emits is the
\* largest latency among the cycles of the window: never below their
\* average, never above their sum.
C14_MaxLatencyRecorded ==
    /\ num_reqs > 0 =>
          /\ max_latency * num_reqs >= total_latency
          /\ max_latency <= total_latency
    /\ report.count > 0 =>
          /\ report.max * report.count >= report.total
          /\ report.max <= report.total

\* C16 (SpecPlace): get_cluster on k physical nodes fails exactly when
\* k < 2; otherwise the name node runs on the first physical node, there
\* are k-1 data nodes, the i-th on the (i+1)-th physical node, no physical
\* node hosts two data nodes and the name node's hosts none.
C16_ClusterLayout ==
    /\ cstate = "failed" => topo < 2
    /\ cstate = "built" =>
          /\ topo >= 2
          /\ hdfs.namenode.phy_node = NodeList(topo)[1]
          /\ Len(hdfs.datanode_list) = topo - 1
          /\ \A j \in 1..Len(hdfs.datanode_list) :
                /\ hdfs.datanode_list[j].phy_node = NodeList(topo)[j + 1]
                /\ hdfs.datanode_list[j].name = j - 1
                /\ hdfs.datanode_list[j].phy_node # hdfs.namenode.phy_node
          /\ \A a, b \in 1..Len(hdfs.datanode_list) :
                hdfs.datanode_list[a].phy_node = hdfs.datanode_list[b].phy_node => a = b

\* a cluster built on the largest topology
C16_Witness ==
    /\ cstate = "built"
    /\ topo = MaxPhyNodes
    /\ Len(hdfs.datanode_list) = MaxPhyNodes - 1

\* the i-th transfer and acknowledgment request of a write, counted from 0
T(k) == <<"xceive", k>>
A(k) == <<"packet_ack", k>>

\* the requests a request links to, downstream or by a blocking event
Links(reqs, id) == SeqToSet(reqs[id].downstream_reqs) \cup SeqToSet(reqs[id].blocking_evts)

\* transfers before acknowledgments, each kind in chain order
Rank(r, id) == IF id[1] = "xceive" THEN id[2] ELSE r + id[2]

\* C17 (SpecPlace): a write over a chain of r data nodes is r transfer
\* requests and r acknowledgment requests, one pair per chain member in
\* chain order; T(i) has downstream A(i) and, short of the tail, T(i+1);
\* A(i) is blocked by the completion of A(i+1) short of the tail and by
\* nothing at the tail; every request but T(0) is downstream of exactly one
\* request, and the links form no cycle.
C17_WriteTreeShape ==
    wpc = "done" =>
        LET chain == ChainOf(w_call)
            r == Len(chain)
            reqs == w_req.reqs
        IN  /\ DOMAIN reqs = {T(k) : k \in 0..(r - 1)} \cup {A(k) : k \in 0..(r - 1)}
            /\ Cardinality(DOMAIN reqs) = 2 * r
            /\ w_req.req = T(0)
            /\ w_req.done = A(0)
            /\ \A k \in 0..(r - 1) :
                  /\ reqs[T(k)].stage = XceiveStage(chain[k + 1])
                  /\ reqs[A(k)].stage = PacketAckStage(chain[k + 1])
                  /\ reqs[T(k)].downstream_reqs =
                        IF k < r - 1 THEN <<A(k), T(k + 1)>> ELSE <<A(k)>>
                  /\ reqs[T(k)].blocking_evts = <<>>
                  /\ reqs[A(k)].downstream_reqs = <<>>
                  /\ reqs[A(k)].blocking_evts = IF k < r - 1 THEN <<A(k + 1)>> ELSE <<>>
            /\ \A id \in DOMAIN reqs :
                  /\ Links(reqs, id) \subseteq DOMAIN reqs
                  /\ \A t \in Links(reqs, id) : Rank(r, t) > Rank(r, id)
                  /\ Cardinality({p \in DOMAIN reqs :
                                    id \in SeqToSet(reqs[p].downstream_reqs)})
                        = IF id = T(0) THEN 0 ELSE 1

\* a write over a chain of MaxReplica members has been composed
C17_Witness ==
    /\ wpc = "done"
    /\ Len(ChainOf(w_call)) = MaxReplica
    /\ Cardinality(DOMAIN w_req.reqs) = 2 * MaxReplica

\* instance i ends a cycle in this step: it passes the statistics and
\* suspends for its think time or is back at the head of the loop
CycleEnds(i) ==
    /\ pc'[i] \in {"think_wait", "head"}
    /\ \/ pc'[i] # pc[i]
       \/ wake'[i] # wake[i]
       \/ pc[i] = "head" /\ active = i

C18_Step ==
    IF mon_wake' # mon_wake
    THEN num_reqs' = 0 /\ total_latency' = 0
    ELSE IF \E i \in Instances : CycleEnds(i)
    THEN \A i \in Instances :
            (CycleEnds(i) /\ num_reqs < MaxReqs) =>
                /\ num_reqs' = num_reqs + 1
                /\ total_latency' = total_latency + (now - start'[i])
    ELSE num_reqs' = num_reqs /\ total_latency' = total_latency

\* C18 (Spec): the counters the instances share change only when an
\* instance ends a cycle, by exactly one request and that cycle's latency
\* (the time since the cycle's own start), and when the monitor resets
\* them: under every interleaving of the instances they hold the number and
\* the summed latency of the cycles completed since the last reset (up to
\* MaxReqs, where the model stops counting).
C18_CountersExact == [][C18_Step]_vars

\* two cycles are counted in one window, one of latency 0 and one of
\* latency 1, while an instance is in the middle of its next cycle
C18_Witness ==
    /\ num_reqs = 2
    /\ total_latency = 1
    /\ \E i \in Instances : pc[i] \in Waits

\* the loop is running and the list is still short of the replica factor
Short == wpc = "loop" /\ Len(w_list) < hdfs.replica

\* the list only grows, by appending
C19_Step ==
    (wpc = "loop" /\ wpc' \in {"loop", "done"}) =>
        /\ Len(w_list') >= Len(w_list)
        /\ \A k \in 1..Len(w_list) : w_list'[k] = w_list[k]

\* C19 (FairPlace): the placement loop is entered only with a replica
\* factor of at most the number of data nodes; while the list is short of
\* it some data node is not yet selected, the list never shrinks, and under
\* fair draws the loop ends and the call on the head is made.
C19_PlacementTerminates ==
    /\ [](wpc = "loop" => hdfs.replica <= Len(hdfs.datanode_list))
    /\ [](Short => \E j \in 1..Len(hdfs.datanode_list) :
                      hdfs.datanode_list[j] \notin SeqToSet(w_list))
    /\ [][C19_Step]_vars
    /\ ((wpc = "loop") ~> (wpc = "done"))

\* a draw of an already selected node has just been discarded, the list
\* being one short of three replicas
C19_Witness ==
    /\ Short
    /\ hdfs.replica = 3
    /\ LocalIndexes(hdfs, w_phy) = {}
    /\ Len(w_list) = 2
    /\ w_dn = <<w_list[1]>>

\* C20 (FairSpec): the client's writes name no originating node: no data
\* node is matched as local and the placement starts from an empty list, so
\* the head is a drawn node; every data node of the cluster can be the head
\* of a client write, and every client write in flight is a chain of
\* replica distinct data nodes.
C20_ClientWriteHeadIsDrawn ==
    /\ LocalIndexes(hdfs, ClientWriteOrigin) = {}
    /\ InitialList(hdfs, ClientWriteOrigin) = <<>>
    /\ conf.write_size > 0 =>
          \A j \in 1..Len(hdfs.datanode_list) :
              \E op \in PhaseOps("write") : OpChain(op)[1] = hdfs.datanode_list[j].name
    /\ \A x \in OpsOf("write") :
          /\ Len(OpChain(x[2])) = hdfs.replica
          /\ NoDup(OpChain(x[2]))
          /\ \A k \in 1..Len(OpChain(x[2])) :
                \E j \in 1..Len(hdfs.datanode_list) :
                    OpChain(x[2])[k] = hdfs.datanode_list[j].name

\* the two instances have writes in flight, one headed by the first data
\* node of the cluster and one by the last
C20_Witness ==
    \E x, y \in OpsOf("write") :
        /\ Len(hdfs.datanode_list) >= 2
        /\ OpChain(x[2])[1] = hdfs.datanode_list[1].name
        /\ OpChain(y[2])[1] = hdfs.datanode_list[Len(hdfs.datanode_list)].name

====
